---- MODULE Spec2Model ----
(***************************************************************************)
(* A model of examples/nn/imagenet-dali.py: the AverageMeter bookkeeping,  *)
(* the warmup / step learning-rate schedule (adjust_learning_rate), the    *)
(* epoch loop of main(), the batch loops of train() and validate(), and    *)
(* accuracy().  Tensor contents (images, losses, wall-clock times) are     *)
(* abstracted; control flow, counters and the learning-rate arithmetic are *)
(* kept.  Real numbers are exact rationals: a learning rate is the record  *)
(* [base, factor, num, den] standing for base * 0.1^factor * num / den.    *)
(***************************************************************************)
EXTENDS Integers, Sequences, FiniteSets, TLC

VARIABLES
    args,          \* the argparse namespace (plus args.factor set by main)
    pc,            \* position of the single control thread
    epoch,         \* main's loop variable
    i,             \* train's / validate's batch index
    train_loader,  \* [size, counter]: samples in the shard, samples consumed
    val_loader,    \* [size, counter]
    train_loader_len,
    group_lr,      \* param_group["lr"] of the wrapped torch optimizer
    meters,        \* batch_time / losses / top1 / top5 of the running call
    total_time,    \* main's AverageMeter
    lists,         \* length of main's per-epoch result lists
    profiler,      \* "off", "on" or "stopped"
    trace,         \* operations performed so far in the current train iteration
    adj,           \* arguments and result of the latest adjust_learning_rate call
    log,           \* main-level events of the current epoch
    epochs_run,    \* epochs whose train() call was started, in order
    cnt,           \* call counters
    factors,       \* values of args.factor left by the adjust calls of this epoch
    last_step_lr,  \* learning rate in effect at the previous optimizer step
    metered,       \* batch indices at which train() updated its meters
    meter,         \* a stand-alone AverageMeter
    hist,          \* the update(val, n) calls made on it since reset()
    output,        \* accuracy(): scores, sample -> class -> score
    target,        \* accuracy(): sample -> class
    topk,          \* accuracy(): the tuple of k values
    res,           \* accuracy(): the result list, or a marker
    setup          \* main's setup: its locals, what the machine offers, the error raised

vars == << args, pc, epoch, i, train_loader, val_loader, train_loader_len,
           group_lr, meters, total_time, lists, profiler, trace, adj, log,
           epochs_run, cnt, factors, last_step_lr, metered, meter, hist,
           output, target, topk, res, setup >>

mainVars == << args, pc, epoch, i, train_loader, val_loader, train_loader_len,
               group_lr, meters, total_time, lists, profiler, trace, adj, log,
               epochs_run, cnt, factors, last_step_lr, metered >>

meterVars == << meter, hist >>

accVars == << output, target, topk, res >>

----------------------------------------------------------------------------
(* Bounds of the model *)

MaxUpdates == 3
MaxVal == 2
MaxN == 2
MaxEpochs == 2
MaxBatches == 12
MaxBatchSize == 2
MaxPrintFreq == 3
MaxProf == 1
MaxValBatches == 1
MaxLr == 2
MaxRank == 1
SchedMaxEpochs == 82
SchedMaxBatches == 2
MaxSamples == 2
MaxScore == 1
MaxGpus == 3

(* Constants of the program *)

WarmupEpochs == 5
DecayEvery == 30
LateEpoch == 80
TestBatchSize == 64
TestBreakAfter == 10
ProfLength == 10
ProfOff == -1
MaxTopK == 5

NoStep == -1     \* step=None of adjust_learning_rate
NoLr == [base |-> 0, factor |-> 0, num |-> 0, den |-> 0]

----------------------------------------------------------------------------
(* AverageMeter *)

Frac(a, b) == [num |-> a, den |-> b]

FracEq(p, q) == p.num * q.den = q.num * p.den

reset == [val |-> 0, avg |-> Frac(0, 1), sum |-> 0, count |-> 0, raised |-> FALSE]

\* update() with "self.sum += val", the weight forgotten
update_unweighted(m, val, n) ==
    LET s == m.sum + val
        c == m.count + n
    IN  [val |-> val, sum |-> s, count |-> c,
         avg |-> IF c = 0 THEN m.avg ELSE Frac(s, c),
         raised |-> (c = 0)]

\* update(): the three assignments, then the division, which raises
\* ZeroDivisionError (leaving avg as it was) when count is 0.
update(m, val, n) ==
    LET s == m.sum + val * n
        c == m.count + n
    IN  [val |-> val, sum |-> s, count |-> c,
         avg |-> IF c = 0 THEN m.avg ELSE Frac(s, c),
         raised |-> (c = 0)]

MeterInitVals ==
    /\ meter = reset
    /\ hist = << >>

MeterUpdate ==
    /\ Len(hist) < MaxUpdates
    /\ \E val \in -1..MaxVal, n \in -1..MaxN :
          /\ meter' = update(meter, val, n)
          /\ hist' = Append(hist, << val, n >>)
    /\ UNCHANGED << mainVars, accVars, setup >>

MeterReset ==
    /\ hist # << >>
    /\ meter' = reset
    /\ hist' = << >>
    /\ UNCHANGED << mainVars, accVars, setup >>

MeterNext == MeterUpdate \/ MeterReset

----------------------------------------------------------------------------
(* Learning rates as exact rationals *)

PowTen[k \in Nat] == IF k = 0 THEN 1 ELSE 10 * PowTen[k - 1]

\* value(a) < value(b), value(a) = value(b)
LrLess(a, b) ==
    a.base * a.num * b.den * PowTen[b.factor] < b.base * b.num * a.den * PowTen[a.factor]

LrEq(a, b) ==
    a.base * a.num * b.den * PowTen[b.factor] = b.base * b.num * a.den * PowTen[a.factor]

----------------------------------------------------------------------------
(* The DALI iterators, as main() and the loops use them *)

\* number of batches one pass over the loader yields (fill_last_batch=False)
NumBatches(loader, bs) == (loader.size + bs - 1) \div bs

HasNext(loader) == loader.counter < loader.size

\* samples in the batch the next fetch returns: input.size(0)
BatchN(loader, bs) ==
    IF loader.size - loader.counter < bs THEN loader.size - loader.counter ELSE bs

Fetch(loader, bs) == [loader EXCEPT !.counter = @ + BatchN(loader, bs)]

LoaderReset(loader) == [loader EXCEPT !.counter = 0]

MeterNames == {"batch_time", "losses", "top1", "top5"}

FreshMeters == [m \in MeterNames |-> reset]

\* losses/top1/top5 .update(value, input.size(0)); batch_time.update(elapsed)
UpdateMeters(ms, n) ==
    [m \in MeterNames |->
        IF m = "batch_time" THEN update(ms[m], 1, 1) ELSE update(ms[m], 1, n)]

----------------------------------------------------------------------------
(* adjust_learning_rate *)

AdjFactor(factor, ep) ==
    LET f1 == IF ep \div DecayEvery > 0 /\ factor < ep \div DecayEvery
              THEN factor + 1 ELSE factor
    IN  IF ep >= LateEpoch THEN f1 + 1 ELSE f1

ResetsSkips(factor, ep) == ep \div DecayEvery > 0 /\ factor < ep \div DecayEvery

\* the warmup counted from 0: "step + epoch * len_epoch"
AdjLr_from_zero(lr, factor, ep, step, len_epoch) ==
    IF ep < WarmupEpochs /\ step # NoStep
    THEN [base |-> lr, factor |-> factor,
          num |-> step + ep * len_epoch, den |-> WarmupEpochs * len_epoch]
    ELSE [base |-> lr, factor |-> factor, num |-> 1, den |-> 1]

AdjLr(lr, factor, ep, step, len_epoch) ==
    IF ep < WarmupEpochs /\ step # NoStep
    THEN [base |-> lr, factor |-> factor,
          num |-> 1 + step + ep * len_epoch, den |-> WarmupEpochs * len_epoch]
    ELSE [base |-> lr, factor |-> factor, num |-> 1, den |-> 1]

adjust_learning_rate(ep, step, len_epoch) ==
    LET f == AdjFactor(args.factor, ep)
        lr == AdjLr(args.lr, f, ep, step, len_epoch)
    IN  /\ args' = [args EXCEPT !.factor = f]
        /\ group_lr' = lr
        /\ adj' = [epoch |-> ep, step |-> step, lr |-> lr]
        /\ factors' = factors \cup {f}
        /\ cnt' = [cnt EXCEPT !.adjust_calls = @ + 1,
                              !.reset_skips = IF ResetsSkips(args.factor, ep)
                                              THEN @ + 1 ELSE @]

----------------------------------------------------------------------------
(* main(), train() and validate() *)

Canon == << "adjust", "forward", "loss", "zero_grad", "backward", "step" >>

\* the setup of lines 293-364 done, on a machine the loops do not ask about
NoSetup == [gpus |-> 1, rank |-> 0, world_size |-> 1, formats |-> FALSE,
            loc_rank |-> 0, loc_dist |-> FALSE, twice_dist |-> FALSE,
            device |-> [kind |-> "cuda", index |-> 0],
            model_on |-> [kind |-> "cuda", index |-> 0],
            memory_format |-> "none", error |-> "none"]

ZeroCnt == [train_calls |-> 0, validate_calls |-> 0, adjust_calls |-> 0,
            opt_steps |-> 0, iters |-> 0, prof_iters |-> 0, prof_starts |-> 0,
            reset_skips |-> 0, results |-> 0]

\* the state when main() has called parse(): the options come from the sets
\* given, the training shard holds nb batches, the last one of a single sample
MainInitOf(Tests, Evals, Profs, Starts, Ends, Freqs, Batches, Sizes, Lrs, Ranks, ValBatches) ==
    \E t \in Tests, e \in Evals, p \in Profs, s \in Starts, n \in Ends,
       f \in Freqs, nb \in Batches, bs \in Sizes, lr \in Lrs, r \in Ranks,
       vb \in ValBatches :
        LET b == IF t THEN TestBatchSize ELSE bs
        IN  /\ args = [test |-> t, evaluate |-> e, prof |-> p, start_epoch |-> s,
                       epochs |-> n, print_freq |-> f, batch_size |-> bs,
                       lr |-> lr, rank |-> r, factor |-> 0]
            /\ train_loader = [size |-> IF nb = 0 THEN 0 ELSE nb * b - (b - 1),
                               counter |-> 0]
            /\ val_loader = [size |-> IF vb = 0 THEN 0 ELSE vb * b - (b - 1),
                             counter |-> 0]
            /\ pc = "main"
            /\ epoch = 0
            /\ i = 0
            /\ train_loader_len = 0
            /\ group_lr = [base |-> lr, factor |-> 0, num |-> 1, den |-> 1]
            /\ meters = FreshMeters
            /\ total_time = reset
            /\ lists = 0
            /\ profiler = "off"
            /\ trace = << >>
            /\ adj = [epoch |-> 0, step |-> NoStep, lr |-> NoLr]
            /\ log = << >>
            /\ epochs_run = << >>
            /\ cnt = ZeroCnt
            /\ factors = {}
            /\ last_step_lr = NoLr
            /\ metered = {}
            /\ setup = NoSetup

IdleRest ==
    /\ meter = reset
    /\ hist = << >>
    /\ output = << >>
    /\ target = << >>
    /\ topk = << >>
    /\ res = << >>

\* lines 284-291: test mode presets
MainTestMode ==
    /\ pc = "main"
    /\ args' = IF args.test
               THEN [args EXCEPT !.epochs = 1, !.start_epoch = 0,
                                 !.batch_size = TestBatchSize]
               ELSE args
    /\ pc' = "evaluate"
    /\ UNCHANGED << epoch, i, train_loader, val_loader, train_loader_len, group_lr,
                    meters, total_time, lists, profiler, trace, adj, log,
                    epochs_run, cnt, factors, last_step_lr, metered,
                    meterVars, accVars, setup >>

\* lines 447-455: --evaluate runs validate and returns; otherwise the epoch
\* loop is set up (args.factor = 0, total_time, the result lists)
MainEvaluate ==
    /\ pc = "evaluate"
    /\ IF args.evaluate
       THEN /\ pc' = "validate"
            /\ UNCHANGED << args, epoch, total_time, lists >>
       ELSE /\ pc' = "for_epoch"
            /\ args' = [args EXCEPT !.factor = 0]
            /\ epoch' = args.start_epoch
            /\ total_time' = reset
            /\ lists' = 0
    /\ UNCHANGED << i, train_loader, val_loader, train_loader_len, group_lr, meters,
                    profiler, trace, adj, log, epochs_run, cnt, factors,
                    last_step_lr, metered, meterVars, accVars, setup >>

\* the loop running one epoch too many: range(start_epoch, epochs + 1)
ForEpoch_one_more ==
    /\ pc = "for_epoch"
    /\ IF epoch <= args.epochs
       THEN /\ pc' = "train"
            /\ epochs_run' = Append(epochs_run, epoch)
            /\ log' = << "train" >>
            /\ factors' = {}
            /\ cnt' = [cnt EXCEPT !.train_calls = @ + 1]
       ELSE /\ pc' = "results"
            /\ UNCHANGED << epochs_run, log, factors, cnt >>
    /\ UNCHANGED << args, epoch, i, train_loader, val_loader, train_loader_len,
                    group_lr, meters, total_time, lists, profiler, trace, adj,
                    last_step_lr, metered, meterVars, accVars, setup >>

\* line 456: for epoch in range(args.start_epoch, args.epochs), and the call
\* of train() at line 458
ForEpoch ==
    /\ pc = "for_epoch"
    /\ IF epoch < args.epochs
       THEN /\ pc' = "train"
            /\ epochs_run' = Append(epochs_run, epoch)
            /\ log' = << "train" >>
            /\ factors' = {}
            /\ cnt' = [cnt EXCEPT !.train_calls = @ + 1]
       ELSE /\ pc' = "results"
            /\ UNCHANGED << epochs_run, log, factors, cnt >>
    /\ UNCHANGED << args, epoch, i, train_loader, val_loader, train_loader_len,
                    group_lr, meters, total_time, lists, profiler, trace, adj,
                    last_step_lr, metered, meterVars, accVars, setup >>

\* lines 511-521
TrainInit ==
    /\ pc = "train"
    /\ meters' = FreshMeters
    /\ train_loader_len' = NumBatches(train_loader, args.batch_size)
    /\ i' = 0
    /\ metered' = {}
    /\ trace' = << >>
    /\ cnt' = [cnt EXCEPT !.iters = 0]
    /\ pc' = "train_for"
    /\ UNCHANGED << args, epoch, train_loader, val_loader, group_lr, total_time,
                    lists, profiler, adj, log, epochs_run, factors, last_step_lr,
                    meterVars, accVars, setup >>

\* lines 522-533: the next batch, and the profiler's start at iteration prof
TrainFor ==
    /\ pc = "train_for"
    /\ IF HasNext(train_loader)
       THEN /\ train_loader' = Fetch(train_loader, args.batch_size)
            /\ trace' = << >>
            /\ IF args.prof >= 0 /\ i = args.prof
               THEN /\ profiler' = "on"
                    /\ cnt' = [cnt EXCEPT !.prof_starts = @ + 1]
               ELSE UNCHANGED << profiler, cnt >>
            /\ pc' = "adjust"
       ELSE /\ pc' = "train_reduce"
            /\ UNCHANGED << train_loader, trace, profiler, cnt >>
    /\ UNCHANGED << args, epoch, i, val_loader, train_loader_len, group_lr, meters,
                    total_time, lists, adj, log, epochs_run, factors, last_step_lr,
                    metered, meterVars, accVars, setup >>

\* line 535
TrainAdjust ==
    /\ pc = "adjust"
    /\ adjust_learning_rate(epoch, i, train_loader_len)
    /\ trace' = Append(trace, "adjust")
    /\ pc' = "test_check"
    /\ UNCHANGED << epoch, i, train_loader, val_loader, train_loader_len, meters,
                    total_time, lists, profiler, log, epochs_run, last_step_lr,
                    metered, meterVars, accVars, setup >>

\* lines 536-538
TrainTestBreak ==
    /\ pc = "test_check"
    /\ pc' = IF args.test /\ i > TestBreakAfter THEN "train_reduce" ELSE "forward"
    /\ UNCHANGED << args, epoch, i, train_loader, val_loader, train_loader_len,
                    group_lr, meters, total_time, lists, profiler, trace, adj, log,
                    epochs_run, cnt, factors, last_step_lr, metered,
                    meterVars, accVars, setup >>

\* one statement of the loop body that touches no modelled state but the trace
BodyStep(at, op, to) ==
    /\ pc = at
    /\ trace' = Append(trace, op)
    /\ pc' = to
    /\ UNCHANGED << args, epoch, i, train_loader, val_loader, train_loader_len,
                    group_lr, meters, total_time, lists, profiler, adj, log,
                    epochs_run, cnt, factors, last_step_lr, metered,
                    meterVars, accVars, setup >>

\* line 544
TrainForward == BodyStep("forward", "forward", "loss")

\* line 548
TrainLoss == BodyStep("loss", "loss", "zero_grad")

\* zero_grad followed directly by optimizer.step()
TrainZeroGrad_no_backward == BodyStep("zero_grad", "zero_grad", "step")

\* line 551
TrainZeroGrad == BodyStep("zero_grad", "zero_grad", "backward")

\* line 556
TrainBackward == BodyStep("backward", "backward", "step")

\* line 563: optimizer.step() with the learning rate now in the param groups
TrainStep ==
    /\ pc = "step"
    /\ trace' = Append(trace, "step")
    /\ last_step_lr' = group_lr
    /\ cnt' = [cnt EXCEPT !.opt_steps = @ + 1, !.iters = @ + 1,
                          !.prof_iters = IF profiler = "on" THEN @ + 1 ELSE @]
    /\ pc' = "metrics"
    /\ UNCHANGED << args, epoch, i, train_loader, val_loader, train_loader_len,
                    group_lr, meters, total_time, lists, profiler, adj, log,
                    epochs_run, factors, metered, meterVars, accVars, setup >>

\* line 567
MetersDue(k, print_freq, len) == k % print_freq = 0 \/ k = len

\* lines 567-609; the batch just taken had counter - (counter of the batch
\* before) samples, which is what input.size(0) returns
TrainMetrics ==
    /\ pc = "metrics"
    /\ IF MetersDue(i, args.print_freq, train_loader_len)
       THEN /\ meters' = UpdateMeters(meters,
                            train_loader.counter - i * args.batch_size)
            /\ metered' = metered \cup {i}
       ELSE UNCHANGED << meters, metered >>
    /\ pc' = "prof_end"
    /\ UNCHANGED << args, epoch, i, train_loader, val_loader, train_loader_len,
                    group_lr, total_time, lists, profiler, trace, adj, log,
                    epochs_run, cnt, factors, last_step_lr, meterVars, accVars, setup >>

\* lines 611-618, and the loop's step to the next index
TrainProfEnd ==
    /\ pc = "prof_end"
    /\ IF args.prof >= 0 /\ i = args.prof + ProfLength
       THEN /\ profiler' = "stopped"
            /\ pc' = "quit"
            /\ i' = i
       ELSE /\ i' = i + 1
            /\ pc' = "train_for"
            /\ UNCHANGED profiler
    /\ UNCHANGED << args, epoch, train_loader, val_loader, train_loader_len,
                    group_lr, meters, total_time, lists, trace, adj, log,
                    epochs_run, cnt, factors, last_step_lr, metered,
                    meterVars, accVars, setup >>

\* lines 620-624
TrainReduce ==
    /\ pc = "train_reduce"
    /\ pc' = "after_train"
    /\ UNCHANGED << args, epoch, i, train_loader, val_loader, train_loader_len,
                    group_lr, meters, total_time, lists, profiler, trace, adj, log,
                    epochs_run, cnt, factors, last_step_lr, metered,
                    meterVars, accVars, setup >>

\* lines 461-463
AfterTrain ==
    /\ pc = "after_train"
    /\ total_time' = update(total_time, 1, 1)
    /\ pc' = IF args.test THEN "results" ELSE "validate"
    /\ UNCHANGED << args, epoch, i, train_loader, val_loader, train_loader_len,
                    group_lr, meters, lists, profiler, trace, adj, log,
                    epochs_run, cnt, factors, last_step_lr, metered,
                    meterVars, accVars, setup >>

\* lines 628-636
ValidateInit ==
    /\ pc = "validate"
    /\ meters' = FreshMeters
    /\ i' = 0
    /\ log' = Append(log, "validate")
    /\ cnt' = [cnt EXCEPT !.validate_calls = @ + 1]
    /\ pc' = "val_for"
    /\ UNCHANGED << args, epoch, train_loader, val_loader, train_loader_len,
                    group_lr, total_time, lists, profiler, trace, adj, epochs_run,
                    factors, last_step_lr, metered, meterVars, accVars, setup >>

\* lines 638-685: one validation batch, or the end of the loop
ValidateFor ==
    /\ pc = "val_for"
    /\ IF HasNext(val_loader)
       THEN /\ val_loader' = Fetch(val_loader, args.batch_size)
            /\ meters' = UpdateMeters(meters, BatchN(val_loader, args.batch_size))
            /\ i' = i + 1
            /\ pc' = "val_for"
       ELSE /\ pc' = "val_reduce"
            /\ UNCHANGED << val_loader, meters, i >>
    /\ UNCHANGED << args, epoch, train_loader, train_loader_len, group_lr,
                    total_time, lists, profiler, trace, adj, log, epochs_run, cnt,
                    factors, last_step_lr, metered, meterVars, accVars, setup >>

\* line 449 without its return: main goes on into the epoch loop
ValidateReturn_no_return ==
    /\ pc = "val_reduce"
    /\ pc' = IF args.evaluate THEN "for_epoch" ELSE "epoch_loss_logic"
    /\ UNCHANGED << args, epoch, i, train_loader, val_loader, train_loader_len,
                    group_lr, meters, total_time, lists, profiler, trace, adj, log,
                    epochs_run, cnt, factors, last_step_lr, metered,
                    meterVars, accVars, setup >>

\* lines 686-695, and the return to line 449 or line 466
ValidateReturn ==
    /\ pc = "val_reduce"
    /\ pc' = IF args.evaluate THEN "returned" ELSE "epoch_loss_logic"
    /\ UNCHANGED << args, epoch, i, train_loader, val_loader, train_loader_len,
                    group_lr, meters, total_time, lists, profiler, trace, adj, log,
                    epochs_run, cnt, factors, last_step_lr, metered,
                    meterVars, accVars, setup >>

\* line 469
EpochLossLogic ==
    /\ pc = "epoch_loss_logic"
    /\ log' = Append(log, "epoch_loss_logic")
    /\ pc' = "adjust_epoch"
    /\ UNCHANGED << args, epoch, i, train_loader, val_loader, train_loader_len,
                    group_lr, meters, total_time, lists, profiler, trace, adj,
                    epochs_run, cnt, factors, last_step_lr, metered,
                    meterVars, accVars, setup >>

\* line 470
AdjustEpoch ==
    /\ pc = "adjust_epoch"
    /\ adjust_learning_rate(epoch, NoStep, NoStep)
    /\ log' = Append(log, "adjust_learning_rate")
    /\ pc' = "record"
    /\ UNCHANGED << epoch, i, train_loader, val_loader, train_loader_len, meters,
                    total_time, lists, profiler, trace, epochs_run, last_step_lr,
                    metered, meterVars, accVars, setup >>

\* lines 473-497
Record ==
    /\ pc = "record"
    /\ lists' = IF args.rank = 0 THEN lists + 1 ELSE lists
    /\ pc' = "reset_train"
    /\ UNCHANGED << args, epoch, i, train_loader, val_loader, train_loader_len,
                    group_lr, meters, total_time, profiler, trace, adj, log,
                    epochs_run, cnt, factors, last_step_lr, metered,
                    meterVars, accVars, setup >>

\* line 498
ResetTrain ==
    /\ pc = "reset_train"
    /\ train_loader' = LoaderReset(train_loader)
    /\ log' = Append(log, "train_loader.reset")
    /\ pc' = "reset_val"
    /\ UNCHANGED << args, epoch, i, val_loader, train_loader_len, group_lr, meters,
                    total_time, lists, profiler, trace, adj, epochs_run, cnt,
                    factors, last_step_lr, metered, meterVars, accVars, setup >>

\* line 499, and the loop's step to the next epoch
ResetVal ==
    /\ pc = "reset_val"
    /\ val_loader' = LoaderReset(val_loader)
    /\ log' = Append(log, "val_loader.reset")
    /\ epoch' = epoch + 1
    /\ pc' = "for_epoch"
    /\ UNCHANGED << args, i, train_loader, train_loader_len, group_lr, meters,
                    total_time, lists, profiler, trace, adj, epochs_run, cnt,
                    factors, last_step_lr, metered, meterVars, accVars, setup >>

\* lines 500-507: rank 0 prints the table, reading row c of lists that hold
\* one entry per recorded epoch; a missing row raises IndexError
Results ==
    /\ pc = "results"
    /\ IF args.rank = 0
       THEN /\ cnt' = [cnt EXCEPT !.results = @ + 1]
            /\ pc' = IF \E c \in args.start_epoch .. (args.epochs - 1) : c >= lists
                     THEN "raised" ELSE "done"
       ELSE /\ pc' = "done"
            /\ UNCHANGED cnt
    /\ UNCHANGED << args, epoch, i, train_loader, val_loader, train_loader_len,
                    group_lr, meters, total_time, lists, profiler, trace, adj, log,
                    epochs_run, factors, last_step_lr, metered, meterVars, accVars, setup >>

Terminated == pc \in {"done", "raised", "returned", "quit"}

Next ==
    \/ MainTestMode
    \/ MainEvaluate
    \/ ForEpoch
    \/ TrainInit
    \/ TrainFor
    \/ TrainAdjust
    \/ TrainTestBreak
    \/ TrainForward
    \/ TrainLoss
    \/ TrainZeroGrad
    \/ TrainBackward
    \/ TrainStep
    \/ TrainMetrics
    \/ TrainProfEnd
    \/ TrainReduce
    \/ AfterTrain
    \/ ValidateInit
    \/ ValidateFor
    \/ ValidateReturn
    \/ EpochLossLogic
    \/ AdjustEpoch
    \/ Record
    \/ ResetTrain
    \/ ResetVal
    \/ Results

Init ==
    /\ MainInitOf(BOOLEAN, BOOLEAN, ProfOff .. MaxProf, 0 .. 1, 0 .. MaxEpochs,
                  1 .. MaxPrintFreq, 0 .. MaxBatches, 1 .. MaxBatchSize, {1},
                  0 .. MaxRank, 1 .. MaxValBatches)
    /\ IdleRest

Spec == Init /\ [][Next]_vars

\* plain runs (no --test, --evaluate, --prof) from epoch 0 through the warmup,
\* both decay steps and epoch 80, and runs restarted at epoch 80
SchedInit ==
    /\ MainInitOf({FALSE}, {FALSE}, {ProfOff}, {0, LateEpoch},
                  (SchedMaxEpochs - 1) .. SchedMaxEpochs, {1},
                  1 .. SchedMaxBatches, {1}, 0 .. MaxLr, {0}, {1})
    /\ IdleRest

SchedSpec == SchedInit /\ [][Next]_vars

MeterInit ==
    /\ MeterInitVals
    /\ MainInitOf({FALSE}, {FALSE}, {ProfOff}, {0}, {0}, {1}, {0}, {1}, {1}, {0}, {0})
    /\ output = << >>
    /\ target = << >>
    /\ topk = << >>
    /\ res = << >>

MeterSpec == MeterInit /\ [][MeterNext]_vars

----------------------------------------------------------------------------
(* accuracy(output, target, topk=(1, 5)) *)

\* one class more than the largest k, so that a target can miss the top 5
NumClasses == MaxTopK + 1

Classes == 1 .. NumClasses

\* lines 573 and 649
TopkArg == << 1, MaxTopK >>

\* Score rows.  accuracy() treats the classes of a row alike, so the classes
\* are numbered by falling score; ties are kept.
Rows == {v \in [Classes -> 0 .. MaxScore] : \A c \in 1 .. (NumClasses - 1) : v[c] >= v[c + 1]}

RECURSIVE RowNum(_, _)
RowNum(v, c) == IF c = 0 THEN 0 ELSE v[c] + (MaxScore + 1) * RowNum(v, c - 1)

\* accuracy() sums over the samples, so their order is immaterial: batches
\* are listed with their samples in the order of this key
RowCode(v, t) == t + NumClasses * RowNum(v, NumClasses)

\* output.topk(maxk, 1, True, True) on one row: the indices of the maxk
\* largest scores, largest first; which of several equal scores comes first
\* is not specified, so every such index list is possible
TopkOfRow(v, maxk) ==
    {p \in [1 .. maxk -> Classes] :
        /\ \A a, b \in 1 .. maxk : a < b => (p[a] # p[b] /\ v[p[a]] >= v[p[b]])
        /\ \A c \in Classes : (\A a \in 1 .. maxk : p[a] # c) => v[c] <= v[p[maxk]]}

\* one column of correct = pred.t().eq(target.view(1, -1).expand_as(pred))
CorrectColumns(v, t, maxk) == {[j \in 1 .. maxk |-> p[j] = t] : p \in TopkOfRow(v, maxk)}

\* the columns possible for each row and target, tabulated once
ColumnTable == << >> @@ [x \in Rows \X Classes |-> CorrectColumns(x[1], x[2], MaxTopK)]

\* the possible values of correct, sample by sample (as lists of columns)
RECURSIVE CorrectChoices(_)
CorrectChoices(n) ==
    IF n = 0 THEN {<< >>}
    ELSE {Append(m, c) : m \in CorrectChoices(n - 1),
                         c \in ColumnTable[<< output[n], target[n] >>]}

\* correct[:k].view(-1).float().sum(0): the True entries of the first k rows
CorrectK(correct, k) ==
    Cardinality({x \in (1 .. k) \X DOMAIN correct : correct[x[2]][x[1]]})

\* correct_k.mul_(100.0 / batch_size), forgetting the batch size
Scaled_no_batch(correct_k, batch_size) == Frac(100 * correct_k, 1)

\* correct_k.mul_(100.0 / batch_size)
Scaled(correct_k, batch_size) == Frac(100 * correct_k, batch_size)

\* Classes of equal score in a row are alike as well, so a target is taken
\* to be the lowest-numbered class of its score.
Samples ==
    {x \in Rows \X Classes : \A c \in 1 .. (x[2] - 1) : x[1][c] # x[1][x[2]]}

AccInitVals ==
    \E n \in 1 .. MaxSamples :
        \E batch \in [1 .. n -> Samples] :
            /\ \A s \in 1 .. (n - 1) :
                  RowCode(batch[s][1], batch[s][2]) <= RowCode(batch[s + 1][1], batch[s + 1][2])
            /\ output = [s \in 1 .. n |-> batch[s][1]]
            /\ target = [s \in 1 .. n |-> batch[s][2]]
            /\ topk = TopkArg
            /\ res = << >>

\* lines 749-762
Accuracy ==
    /\ res = << >>
    /\ LET batch_size == Len(target)
       IN  res' \in {[j \in 1 .. Len(topk) |->
                          Scaled(CorrectK(correct, topk[j]), batch_size)] :
                      correct \in CorrectChoices(batch_size)}
    /\ UNCHANGED << output, target, topk, mainVars, meterVars, setup >>

AccNext == Accuracy

AccInit ==
    /\ AccInitVals
    /\ MainInitOf({FALSE}, {FALSE}, {ProfOff}, {0}, {0}, {1}, {0}, {1}, {1}, {0}, {0})
    /\ MeterInitVals

AccSpec == AccInit /\ [][AccNext]_vars

----------------------------------------------------------------------------
(* main(): GPU setup and model placement, lines 284-364 *)

\* the attributes parse() defines, one per add_argument
ParseAttrs == { "train", "validate", "train_indexes", "validate_indexes", "arch",
                "workers", "epochs", "start_epoch", "batch_size", "batch_skip",
                "local_batch_skip", "lr", "momentum", "weight_decay", "print_freq",
                "resume", "evaluate", "pretrained", "dali_cpu", "prof",
                "deterministic", "local_rank", "loss_scale", "test" }

\* the namespace parse() returns; only the options the setup reads vary
ParseNamespace(t, pre, bs) ==
    [a \in ParseAttrs |->
        CASE a = "test" -> t
          [] a = "pretrained" -> pre
          [] a = "batch_size" -> bs
          [] a = "arch" -> "resnet18"
          [] a \in {"evaluate", "dali_cpu", "deterministic"} -> FALSE
          [] a = "epochs" -> 90
          [] a = "prof" -> ProfOff
          [] OTHER -> 0]

\* args.a = v: the attribute is created when it is missing
SetAttr(ns, a, v) == [x \in DOMAIN ns \cup {a} |-> IF x = a THEN v ELSE ns[x]]

\* every attribute a step reads exists; a missing one raises AttributeError
HasAttrs(ns, names) == names \subseteq DOMAIN ns

NoDevice == [kind |-> "unset", index |-> 0]
Cpu == [kind |-> "cpu", index |-> 0]
Cuda(n) == [kind |-> "cuda", index |-> n]

\* an exception leaves main(): nothing after the raising line runs
SetupRaise(err) ==
    /\ pc' = "setup_raised"
    /\ setup' = [setup EXCEPT !.error = err]
    /\ UNCHANGED args

SetupRest ==
    UNCHANGED << epoch, i, train_loader, val_loader, train_loader_len, group_lr,
                 meters, total_time, lists, profiler, trace, adj, log,
                 epochs_run, cnt, factors, last_step_lr, metered,
                 meterVars, accVars >>

\* lines 285-293: test mode presets, then args.distributed = True
SetupTestMode ==
    /\ pc = "setup_main"
    /\ IF ~HasAttrs(args, {"test"})
       THEN SetupRaise("AttributeError")
       ELSE LET a1 == IF args.test
                      THEN SetAttr(SetAttr(SetAttr(SetAttr(SetAttr(args,
                               "epochs", 1), "start_epoch", 0), "arch", "resnet50"),
                               "batch_size", TestBatchSize), "data", << >>)
                      ELSE args
            IN  /\ args' = SetAttr(a1, "distributed", TRUE)
                /\ pc' = "setup_ranks"
                /\ UNCHANGED setup
    /\ SetupRest

\* lines 316-325: ranks and GPU count; rank % args.gpus divides by the count
SetupRanks ==
    /\ pc = "setup_ranks"
    /\ LET a1 == SetAttr(SetAttr(SetAttr(SetAttr(args, "gpu", 0),
                     "world_size", setup.world_size), "rank", setup.rank),
                     "gpus", setup.gpus)
           s1 == [setup EXCEPT !.device = Cpu, !.loc_dist = (a1.gpus > 1)]
       IN  IF a1.gpus = 0
           THEN /\ args' = a1
                /\ setup' = [s1 EXCEPT !.error = "ZeroDivisionError"]
                /\ pc' = "setup_raised"
           ELSE /\ args' = SetAttr(a1, "local_rank", a1.rank % a1.gpus)
                /\ setup' = [s1 EXCEPT !.loc_rank = a1.rank % a1.gpus,
                                       !.twice_dist = FALSE]
                /\ pc' = "setup_device"
    /\ SetupRest

\* lines 326-339: several GPUs: one process group per node, device
\* "cuda:" + str(loc_rank); one GPU: args.distributed = False, device "cuda:0"
SetupDevice ==
    /\ pc = "setup_device"
    /\ IF ~HasAttrs(args, {"distributed", "gpus"})
       THEN SetupRaise("AttributeError")
       ELSE /\ IF args.distributed /\ setup.loc_dist
               THEN /\ setup' = [setup EXCEPT !.twice_dist = TRUE,
                                              !.device = Cuda(setup.loc_rank)]
                    /\ UNCHANGED args
               ELSE IF args.gpus = 1
               THEN /\ args' = SetAttr(SetAttr(SetAttr(args, "gpus", setup.gpus),
                                   "distributed", FALSE), "local_rank", 0)
                    /\ setup' = [setup EXCEPT !.device = Cuda(0)]
               ELSE UNCHANGED << args, setup >>
            /\ pc' = "setup_model"
    /\ SetupRest

\* lines 341-350: the total batch size, and the model is created from
\* args.pretrained and args.arch
SetupModel ==
    /\ pc = "setup_model"
    /\ IF ~HasAttrs(args, {"world_size", "batch_size", "pretrained", "arch"})
       THEN SetupRaise("AttributeError")
       ELSE /\ args' = SetAttr(args, "total_batch_size",
                               args.world_size * args.batch_size)
            /\ pc' = "setup_place"
            /\ UNCHANGED setup
    /\ SetupRest

\* lines 353-364: without args.distributed, and with a torch that has the
\* memory formats, args.channels_last chooses the format; else model.to(device)
SetupPlace ==
    /\ pc = "setup_place"
    /\ IF ~HasAttrs(args, {"distributed"})
       THEN SetupRaise("AttributeError")
       ELSE IF ~args.distributed /\ setup.formats
       THEN IF ~HasAttrs(args, {"channels_last"})
            THEN SetupRaise("AttributeError")
            ELSE /\ setup' = [setup EXCEPT !.model_on = setup.device,
                                 !.memory_format = IF args.channels_last
                                                   THEN "channels_last"
                                                   ELSE "contiguous_format"]
                 /\ pc' = "setup_done"
                 /\ UNCHANGED args
       ELSE /\ setup' = [setup EXCEPT !.model_on = setup.device]
            /\ pc' = "setup_done"
            /\ UNCHANGED args
    /\ SetupRest

SetupNext ==
    \/ SetupTestMode
    \/ SetupRanks
    \/ SetupDevice
    \/ SetupModel
    \/ SetupPlace

\* main() has called parse() on a node with 0 .. MaxGpus visible GPUs, as MPI
\* rank r of w; torch may or may not have the memory formats (torch >= 1.5)
SetupInit ==
    /\ \E g \in 0 .. MaxGpus, w \in 1 .. (MaxRank + 1), f \in BOOLEAN,
          t \in BOOLEAN, pre \in BOOLEAN, bs \in 1 .. MaxBatchSize :
        \E r \in 0 .. (w - 1) :
            /\ args = ParseNamespace(t, pre, bs)
            /\ setup = [gpus |-> g, rank |-> r, world_size |-> w, formats |-> f,
                        loc_rank |-> 0, loc_dist |-> FALSE, twice_dist |-> FALSE,
                        device |-> NoDevice, model_on |-> NoDevice,
                        memory_format |-> "none", error |-> "none"]
    /\ pc = "setup_main"
    /\ epoch = 0
    /\ i = 0
    /\ train_loader = [size |-> 0, counter |-> 0]
    /\ val_loader = [size |-> 0, counter |-> 0]
    /\ train_loader_len = 0
    /\ group_lr = [base |-> 0, factor |-> 0, num |-> 1, den |-> 1]
    /\ meters = FreshMeters
    /\ total_time = reset
    /\ lists = 0
    /\ profiler = "off"
    /\ trace = << >>
    /\ adj = [epoch |-> 0, step |-> NoStep, lr |-> NoLr]
    /\ log = << >>
    /\ epochs_run = << >>
    /\ cnt = ZeroCnt
    /\ factors = {}
    /\ last_step_lr = NoLr
    /\ metered = {}
    /\ IdleRest

SetupSpec == SetupInit /\ [][SetupNext]_vars

----------------------------------------------------------------------------
(* Properties *)

RECURSIVE SumN(_)
SumN(h) == IF h = << >> THEN 0 ELSE h[1][2] + SumN(Tail(h))

RECURSIVE SumValN(_)
SumValN(h) == IF h = << >> THEN 0 ELSE h[1][1] * h[1][2] + SumValN(Tail(h))

\* C1: after reset() alone val, avg, sum and count are 0; after reset() and
\* update(val_i, n_i) calls of positive total weight, count is the sum of
\* the n_i, sum the sum of val_i * n_i, val the latest val, avg sum / count.
C1_RunningAverage ==
    /\ hist = << >> =>
          /\ meter.val = 0
          /\ meter.sum = 0
          /\ meter.count = 0
          /\ meter.avg.num = 0 /\ meter.avg.den # 0
    /\ (hist # << >> /\ SumN(hist) > 0) =>
          /\ meter.count = SumN(hist)
          /\ meter.sum = SumValN(hist)
          /\ meter.val = hist[Len(hist)][1]
          /\ meter.avg.den # 0
          /\ FracEq(meter.avg, Frac(SumValN(hist), SumN(hist)))

\* three updates of different weights, one of them of weight 0, whose
\* average is not the latest value
C1_Witness ==
    /\ Len(hist) = 3
    /\ SumN(hist) > 0
    /\ \E k \in 1..3 : hist[k][2] = 0
    /\ \E k \in 1..3 : hist[k][2] = 2
    /\ meter.avg.num # meter.val * meter.avg.den

Plain == ~args.test /\ ~args.evaluate /\ args.prof < 0

LrOf(base) == [base |-> base, factor |-> 0, num |-> 1, den |-> 1]

Warming == args.start_epoch = 0 /\ epoch < WarmupEpochs /\ Plain

\* the part of C2 that holds for every args.lr: the value at each optimizer
\* step, the bound args.lr, and args.lr itself at the last batch of epoch 4
C2_WarmupValue ==
    (Warming /\ pc = "metrics") =>
        /\ LrEq(last_step_lr,
                [base |-> args.lr, factor |-> 0,
                 num |-> 1 + i + epoch * train_loader_len,
                 den |-> 5 * train_loader_len])
        /\ ~LrLess(LrOf(args.lr), last_step_lr)
        /\ (epoch = 4 /\ i = train_loader_len - 1) => LrEq(last_step_lr, LrOf(args.lr))

\* at an optimizer step about to be taken, the rate of the step before it
\* is smaller
C2_Increasing ==
    (Warming /\ pc = "step" /\ last_step_lr # NoLr) => LrLess(last_step_lr, group_lr)

C3_PiecewiseConstant ==
    (epoch >= WarmupEpochs /\ pc \notin {"main", "evaluate"} /\ args.lr > 0) =>
        Cardinality(factors) <= 1

IsPrefix(s, t) == Len(s) <= Len(t) /\ \A k \in 1..Len(s) : s[k] = t[k]

\* a batch has been fetched in this train() call, and the loop body is over
BatchOver == pc \in {"prof_end", "train_reduce"} /\ train_loader.counter > 0

\* the loop was left by the break of line 538, batch i fetched but not trained
TestBroken == args.test /\ i > TestBreakAfter /\ i < train_loader_len

C4_Order ==
    /\ pc \in {"adjust", "test_check", "forward", "loss", "zero_grad", "backward",
               "step", "metrics", "prof_end"} => IsPrefix(trace, Canon)
    /\ pc \in {"metrics", "prof_end"} =>
          /\ LrEq(last_step_lr, adj.lr) /\ last_step_lr = group_lr
          /\ adj.epoch = epoch /\ adj.step = i
    /\ cnt.iters = (IF pc \in {"metrics", "prof_end"} THEN i + 1 ELSE i)
          \/ pc \notin {"train_for", "adjust", "test_check", "forward", "loss",
                         "zero_grad", "backward", "step", "metrics", "prof_end"}

\* C4 as stated: every iteration of train()'s loop performs
\* adjust_learning_rate, forward, loss, zero_grad, backward and step, in this
\* order and each once.
C4_EveryIteration == C4_Order /\ (BatchOver => trace = Canon)

\* C4 amended: every iteration but the one at which test mode breaks out of
\* the loop (args.test and i > 10), which performs adjust_learning_rate only.
C4_StepOrder ==
    /\ C4_Order
    /\ BatchOver => trace = (IF pc = "train_reduce" /\ TestBroken
                             THEN << "adjust" >> ELSE Canon)

C4_Witness ==
    /\ pc = "prof_end" /\ trace = Canon
    /\ epoch = 1 /\ i = 2
    /\ cnt.opt_steps > 3

FullLog == << "train", "validate", "epoch_loss_logic", "adjust_learning_rate",
              "train_loader.reset", "val_loader.reset" >>

\* C5: a plain run takes the epochs start_epoch .. epochs-1 in order and
\* stops; each epoch is train, validate, epoch_loss_logic,
\* adjust_learning_rate(step None), then both loaders' reset before the next
\* train.
C5_EpochLoop ==
    Plain =>
        /\ \A k \in 1..Len(epochs_run) : epochs_run[k] = args.start_epoch + k - 1
        /\ Len(epochs_run) > 0 => epochs_run[Len(epochs_run)] < args.epochs
        /\ IsPrefix(log, FullLog)
        /\ (pc \in {"for_epoch", "results", "done", "raised"} /\ epochs_run # << >>) =>
              log = FullLog
        /\ pc = "train" => train_loader.counter = 0 /\ val_loader.counter = 0
        /\ pc = "record" => (adj.epoch = epoch /\ adj.step = NoStep)
        /\ pc \in {"results", "done", "raised"} =>
              Len(epochs_run) = (IF args.epochs > args.start_epoch
                                 THEN args.epochs - args.start_epoch ELSE 0)
        /\ pc \notin {"quit", "returned"}
        /\ (pc \in {"done", "raised"} \/ ENABLED Next)

C5_Witness ==
    /\ Plain /\ pc = "done"
    /\ epochs_run = << 0, 1 >>
    /\ train_loader_len = 3
    /\ cnt.validate_calls = 2

\* C6: in test mode train() makes exactly 10 training iterations on a loader
\* of more batches than that, and main then leaves the epoch loop without
\* validate.
C6_TenIterations ==
    (args.test /\ ~args.evaluate /\ pc \in {"after_train", "results", "done", "raised"}
       /\ train_loader_len > TestBreakAfter) =>
        /\ cnt.iters = 10
        /\ cnt.validate_calls = 0

\* C7: with --prof p >= 0 the process quits after exactly 10 training
\* iterations under the profiler, started at iteration p; with --prof -1 the
\* profiler is never started and train() never quits.
C7_ProfTen ==
    /\ (pc = "quit" /\ ~args.test) => (cnt.prof_iters = 10 /\ profiler = "stopped")
    /\ args.prof < 0 => (profiler = "off" /\ pc # "quit")

\* C8: with --evaluate main runs validate once and returns: no train(), no
\* optimizer step, no adjust_learning_rate, no RESULTS table.
C8_EvaluateOnly ==
    (args.evaluate /\ pc # "main") =>
        /\ cnt.train_calls = 0
        /\ cnt.opt_steps = 0
        /\ cnt.adjust_calls = 0
        /\ cnt.results = 0
        /\ cnt.validate_calls = (IF pc = "evaluate" \/ pc = "validate" THEN 0 ELSE 1)
        /\ pc \in {"evaluate", "validate", "val_for", "val_reduce", "returned"}
        /\ (pc = "returned" \/ ENABLED Next)

C8_Witness ==
    /\ args.evaluate /\ pc = "returned"
    /\ args.rank = 0
    /\ i = 1
    /\ cnt.validate_calls = 1

\* C10: train() updates its meters at iteration i exactly when i is a
\* multiple of print_freq or i is the last batch of the epoch.
C10_LastBatchMetered ==
    (~args.test /\ pc = "train_reduce") =>
        metered = {k \in 0 .. (train_loader_len - 1) :
                      k % args.print_freq = 0 \/ k = train_loader_len - 1}

\* samples whose target is in the top k whatever the order of equal
\* scores, and samples whose target is in the top k for some such order
SureHits(k) ==
    Cardinality({s \in DOMAIN target :
        Cardinality({c \in Classes \ {target[s]} :
                        output[s][c] >= output[s][target[s]]}) < k})

MayHits(k) ==
    Cardinality({s \in DOMAIN target :
        Cardinality({c \in Classes : output[s][c] > output[s][target[s]]}) < k})

\* C9: the result for k is 100 * (samples whose target is among the k
\* highest-scoring classes) / batch_size; every result is in [0, 100] and
\* precision@1 <= precision@5.
C9_Precision ==
    res # << >> =>
        /\ Len(res) = Len(topk)
        /\ \A j \in 1 .. Len(topk) :
              /\ res[j].den = Len(target)
              /\ 100 * SureHits(topk[j]) <= res[j].num
              /\ res[j].num <= 100 * MayHits(topk[j])
              /\ 0 <= res[j].num /\ res[j].num <= 100 * res[j].den
        /\ res[1].num * res[2].den <= res[2].num * res[1].den

\* a batch of two: one target is the single best class, the other is
\* outside the top 5, so precision@1 = precision@5 = 50
C9_Witness ==
    /\ Len(target) = 2
    /\ res = << Frac(100, 2), Frac(100, 2) >>
    /\ SureHits(1) = 1 /\ MayHits(5) = 1

\* C11: on a node with at least one visible GPU no setup step raises, and
\* when the model has been placed: with more than one GPU twice_dist is True,
\* device is "cuda:<rank mod gpus>" and args.local_rank is rank mod gpus; with
\* exactly one GPU args.distributed is False, device is "cuda:0",
\* args.local_rank is 0 and twice_dist is False; the model is on that device.
C11_SetupCompletes ==
    setup.gpus >= 1 /\ pc \in {"setup_done", "setup_raised"} =>
        /\ pc = "setup_done"
        /\ setup.error = "none"
        /\ setup.model_on = setup.device
        /\ setup.gpus > 1 =>
              /\ setup.twice_dist
              /\ setup.device = Cuda(setup.rank % setup.gpus)
              /\ args.local_rank = setup.rank % setup.gpus
        /\ setup.gpus = 1 =>
              /\ ~args.distributed
              /\ setup.device = Cuda(0)
              /\ args.local_rank = 0
              /\ ~setup.twice_dist

\* C11, the part the code keeps: a setup that reaches model placement has
\* chosen the device and the flags by the GPU count, and the model sits there
C11_BranchOutcome ==
    pc = "setup_done" =>
        /\ setup.gpus >= 1
        /\ setup.model_on = setup.device
        /\ setup.gpus > 1 =>
              /\ setup.twice_dist /\ args.distributed
              /\ setup.device = Cuda(setup.rank % setup.gpus)
              /\ args.local_rank = setup.rank % setup.gpus
        /\ setup.gpus = 1 =>
              /\ ~args.distributed /\ ~setup.twice_dist
              /\ setup.device = Cuda(0)
              /\ args.local_rank = 0
              /\ ~setup.formats

====
